---- MODULE Spec2Model ----
(***************************************************************************)
(* A model of the SNESRenderer engine (5.8.testhdr.py and                  *)
(* nes-snes-1.05.8.25.py): the renderer's layer list and run loop, the     *)
(* TileSet atlas, the TileMap grid, the per-frame update of the player     *)
(* sprite (input displacement, tile collision, screen clamp), the          *)
(* command-line entry point of nes-snes-1.05.8.25.py, and the game loop    *)
(* of rpg.5.8.25.py.                                                       *)
(*                                                                         *)
(* The variables are the fields of the program's objects and the position  *)
(* of its one thread of control.  Each subsystem has a specification of    *)
(* its own (SpecRenderer, SpecRun, SpecTileSet, SpecTileMap, SpecUpdate,   *)
(* SpecDemo, SpecMain, SpecRpg); the variables a specification does not    *)
(* use keep the idle values of IdleXxx.                                    *)
(***************************************************************************)
EXTENDS Integers, Sequences, FiniteSets, TLC

VARIABLES
    engine,         \* which source file's classes are in use
    layers,         \* SNESRenderer.layers
    logical_size,   \* SNESRenderer.logical_size, <<width, height>>
    surface,        \* size <<w, h>> of the surface given to TileSet.__init__
    tile_size_px,   \* TileSet.tile_size_px
    tiles,          \* TileSet.tiles
    width,          \* TileMap.width
    height,         \* TileMap.height
    map_data,       \* TileMap.map_data, a list of rows
    TILE_SIZE,      \* game parameter TILE_SIZE
    MOVE_SPEED,     \* game parameter MOVE_SPEED
    player_sprite,  \* the Sprite: [x, y, width, height, priority]
    call,           \* the last call made and what it gave back
    n_calls,        \* number of calls made so far
    pc,             \* where the thread of control is
    running,        \* the local variable running of SNESRenderer.run
    update_cb,      \* the update_cb argument of SNESRenderer.run
    layer_i,        \* layers already visited by the for loop of run
    log,            \* the steps of run performed so far, in order
    window,         \* the pygame display window of the renderer
    sys_argv,       \* the command line of the process, sys.argv
    files,          \* what the files named on the command line hold
    tm_rows,        \* the local variable tm_rows of the entry point
    exit_status,    \* the exit status of the process, once it has one
    mario,          \* the dict mario of rpg.5.8.25.py
    enemies         \* the list enemies of rpg.5.8.25.py

vars == <<engine, layers, logical_size, surface, tile_size_px, tiles, width,
          height, map_data, TILE_SIZE, MOVE_SPEED, player_sprite, call, n_calls,
          pc, running, update_cb, layer_i, log, window, sys_argv, files,
          tm_rows, exit_status, mario, enemies>>

rendererVars == <<layers, logical_size>>
tilesetVars  == <<surface, tile_size_px, tiles>>
tilemapVars  == <<width, height, map_data>>
gameVars     == <<TILE_SIZE, MOVE_SPEED, player_sprite>>
loopVars     == <<pc, running, update_cb, layer_i, log, window>>
mainVars     == <<sys_argv, files, tm_rows, exit_status>>
rpgVars      == <<mario, enemies>>

-----------------------------------------------------------------------------
(* Bounds of the model *)

MaxCalls == 4        \* calls made on one object
MaxPriority == 3     \* layer priorities are 0..MaxPriority
MaxSurface == 5      \* source images are up to MaxSurface pixels wide and high
MaxTileSize == 3     \* atlas tile sizes are 1..MaxTileSize
IndexSlack == 2      \* indices run from -IndexSlack to count + IndexSlack
MaxGrid == 2         \* TileMap grids are up to MaxGrid x MaxGrid cells
CoordSlack == 1      \* tile coordinates run CoordSlack cells off the grid
MaxWrites == 2       \* set_tile calls made on one grid
MaxWalls == 1        \* walls on the map of a small game
MaxSprite == 4       \* sprite sizes of the small games are 1..MaxSprite
MaxShrink == 1       \* the screen is up to MaxShrink pixels smaller than the map

-----------------------------------------------------------------------------
(* Python helpers *)

Min(a, b) == IF a < b THEN a ELSE b
Max(a, b) == IF a > b THEN a ELSE b

\* Python's a // b for b > 0 (floor division).
FloorDiv(a, b) == a \div b

\* Python's list[i]: a negative i counts from the end, an i outside
\* -len..len-1 raises IndexError.  The list is a sequence (1-based).
PyIndexOk(list, i) == -Len(list) <= i /\ i < Len(list)
PyIndex(list, i) == IF i >= 0 THEN list[i + 1] ELSE list[Len(list) + i + 1]

-----------------------------------------------------------------------------
(* Idle values *)

Engines == {"5.8.testhdr", "nes-snes-1.05.8.25"}

IdleRenderer == layers = <<>> /\ logical_size = <<256, 224>>
IdleTileSet  == surface = <<0, 0>> /\ tile_size_px = 8 /\ tiles = <<>>
IdleTileMap  == width = 0 /\ height = 0 /\ map_data = <<>>
IdleGame     == /\ TILE_SIZE = 16
                /\ MOVE_SPEED = 2
                /\ player_sprite = [x |-> 0, y |-> 0, width |-> 0, height |-> 0,
                                    priority |-> 1]

\* A renderer that has been constructed (its window is open) and whose run
\* has not been called.
IdleLoop     == /\ pc = "setup"
                /\ running = FALSE
                /\ update_cb = "None"
                /\ layer_i = 0
                /\ log = <<>>
                /\ window = "open"

\* No command line: the classes are used as a library.
IdleMain     == /\ sys_argv = <<>>
                /\ files = [tilesheet |-> "none", tilemap |-> "none",
                            mario |-> "none"]
                /\ tm_rows = <<>>
                /\ exit_status = "none"

\* The RPG is not running.
IdleRpg      == /\ mario = [x |-> 0, y |-> 0, hp |-> 0, size |-> 0]
                /\ enemies = <<>>

-----------------------------------------------------------------------------
(* SNESRenderer.add_layer *)

\* The objects handed to add_layer: drawables with a priority, an object
\* without a draw attribute, an object without a priority attribute.
LayerObjects ==
    {[has_draw |-> TRUE, has_priority |-> TRUE, priority |-> p] :
        p \in 0..MaxPriority}
    \cup {[has_draw |-> FALSE, has_priority |-> TRUE, priority |-> 0],
          [has_draw |-> TRUE, has_priority |-> FALSE, priority |-> 0]}

\* key=lambda l: getattr(l, "priority", 0)
SortKey(l) == IF l.has_priority THEN l.priority ELSE 0

\* A sort that puts a new element before its equals (not stable).
RECURSIVE InsertBeforeEquals(_, _)
InsertBeforeEquals(s, e) ==
    IF s = <<>> THEN <<e>>
    ELSE IF SortKey(Head(s)) < SortKey(e)
         THEN <<Head(s)>> \o InsertBeforeEquals(Tail(s), e)
         ELSE <<e>> \o s

\* One step of the stable sort: e goes after every element of the sorted s
\* whose key is <= its own.
RECURSIVE InsertStable(_, _)
InsertStable(s, e) ==
    IF s = <<>> THEN <<e>>
    ELSE IF SortKey(Head(s)) <= SortKey(e)
         THEN <<Head(s)>> \o InsertStable(Tail(s), e)
         ELSE <<e>> \o s

\* list.sort(key=...): Python's sort is stable.
RECURSIVE list_sort(_)
list_sort(s) ==
    IF s = <<>> THEN <<>>
    ELSE InsertStable(list_sort(SubSeq(s, 1, Len(s) - 1)), s[Len(s)])

\* A check for the draw attribute alone.
add_layer_rejects_no_draw(layer) ==
    engine = "5.8.testhdr" /\ ~layer.has_draw

\* The hasattr check of 5.8.testhdr.py; nes-snes-1.05.8.25.py has none.
add_layer_rejects(layer) ==
    engine = "5.8.testhdr" /\ (~layer.has_draw \/ ~layer.has_priority)

add_layer(obj) ==
    LET layer == [id |-> n_calls + 1, has_draw |-> obj.has_draw,
                  has_priority |-> obj.has_priority, priority |-> obj.priority]
    IN  /\ pc = "setup"
        /\ n_calls < MaxCalls
        /\ n_calls' = n_calls + 1
        /\ IF add_layer_rejects(layer)
           THEN /\ layers' = layers
                /\ call' = [op |-> "add_layer", layer |-> layer,
                            before |-> layers, raised |-> "ValueError"]
           ELSE /\ layers' = list_sort(Append(layers, layer))
                /\ call' = [op |-> "add_layer", layer |-> layer,
                            before |-> layers, raised |-> "none"]
        /\ UNCHANGED <<engine, rpgVars, logical_size, tilesetVars, tilemapVars, gameVars,
                       loopVars, mainVars>>

InitRenderer ==
    /\ engine \in Engines
    /\ IdleRenderer /\ IdleTileSet /\ IdleTileMap /\ IdleGame
    /\ IdleLoop /\ IdleMain /\ IdleRpg
    /\ call = [op |-> "init"]
    /\ n_calls = 0

NextRenderer == \E obj \in LayerObjects : add_layer(obj)

SpecRenderer == InitRenderer /\ [][NextRenderer]_vars

\* C1: after any sequence of add_layer calls the layer list is sorted
\* ascending by priority, and layers of equal priority are in the order in
\* which they were registered.
C1_LayersSortedStable ==
    \A i, j \in 1..Len(layers) :
        i < j =>
            \/ SortKey(layers[i]) < SortKey(layers[j])
            \/ /\ SortKey(layers[i]) = SortKey(layers[j])
               /\ layers[i].id < layers[j].id

\* Registering priorities 3, 1, 2, 1 gives the draw order 1, 1, 2, 3 with
\* the two layers of priority 1 in registration order.
C1_Witness ==
    /\ Len(layers) = 4
    /\ [i \in 1..4 |-> layers[i].priority] = <<1, 1, 2, 3>>
    /\ [i \in 1..4 |-> layers[i].id] = <<2, 4, 3, 1>>

\* C18: in 5.8.testhdr.py, add_layer called with an object that lacks a
\* draw attribute or lacks a priority attribute raises ValueError and
\* leaves the layer list as it was: nothing appended, order unchanged.
C18_RejectedLayerLeavesList ==
    (/\ engine = "5.8.testhdr"
     /\ call.op = "add_layer"
     /\ (~call.layer.has_draw \/ ~call.layer.has_priority))
    => /\ call.raised = "ValueError"
       /\ layers = call.before

\* Layers of priority 2 and 1 are registered, then an object without a
\* priority attribute is refused and the list is still the two layers.
C18_Witness ==
    /\ engine = "5.8.testhdr"
    /\ call.op = "add_layer"
    /\ call.layer.has_draw /\ ~call.layer.has_priority
    /\ call.raised = "ValueError"
    /\ Len(call.before) = 2
    /\ [i \in 1..2 |-> call.before[i].id] = <<2, 1>>
    /\ layers = call.before

-----------------------------------------------------------------------------
(* TileSet *)

\* surface.subsurface((tx, ty, tile_size, tile_size)): the tile is the
\* square of the source image at pixel (tx, ty).
Subsurface(tx, ty, tile_size) ==
    [kind |-> "subsurface", x |-> tx, y |-> ty, w |-> tile_size, h |-> tile_size]

\* pygame.Surface((size, size), SRCALPHA) filled with (0, 0, 0, 0).
dummy_tile(size) == [kind |-> "transparent", w |-> size, h |-> size]

\* Counting a partial trailing tile too, as range(0, w, tile_size) does.
NumTilesCeil(extent, tile_size) == (extent + tile_size - 1) \div tile_size

\* num_tiles_x = w // tile_size
NumTiles(extent, tile_size) == FloorDiv(extent, tile_size)

\* for tx_idx in range(num_tiles_x), from tx_idx on: one row of tiles.
RECURSIVE TileRow(_, _, _, _)
TileRow(tx_idx, ty_idx, num_tiles_x, tile_size) ==
    IF tx_idx >= num_tiles_x THEN <<>>
    ELSE <<Subsurface(tx_idx * tile_size, ty_idx * tile_size, tile_size)>>
         \o TileRow(tx_idx + 1, ty_idx, num_tiles_x, tile_size)

\* for ty_idx in range(num_tiles_y), from ty_idx on.
RECURSIVE TileRows(_, _, _, _)
TileRows(ty_idx, num_tiles_x, num_tiles_y, tile_size) ==
    IF ty_idx >= num_tiles_y THEN <<>>
    ELSE TileRow(0, ty_idx, num_tiles_x, tile_size)
         \o TileRows(ty_idx + 1, num_tiles_x, num_tiles_y, tile_size)

\* TileSet.__init__: the list self.tiles built from a surface of size surf.
TileSet_init(surf, tile_size) ==
    TileRows(0, NumTiles(surf[1], tile_size), NumTiles(surf[2], tile_size),
             tile_size)

\* list[i] as an outcome: the element, or IndexError.
ListGet(list, i) ==
    IF PyIndexOk(list, i)
    THEN [raised |-> "none", value |-> PyIndex(list, i)]
    ELSE [raised |-> "IndexError", value |-> "none"]

\* return self.tiles[index] with no check at all.
TileSet_get_unchecked(index) == ListGet(tiles, index)

\* TileSet.get
TileSet_get(index) ==
    IF tiles = <<>>
    THEN [raised |-> "none", value |-> dummy_tile(tile_size_px)]
    ELSE IF 0 <= index /\ index < Len(tiles)
         THEN ListGet(tiles, index)
         ELSE ListGet(tiles, 0)

\* A call of tileset.get(index).
get(index) ==
    /\ call' = [op |-> "TileSet.get", index |-> index,
                result |-> TileSet_get(index)]
    /\ UNCHANGED <<engine, rpgVars, rendererVars, tilesetVars, tilemapVars, gameVars,
                   n_calls, loopVars, mainVars>>

InitTileSet ==
    /\ engine \in Engines
    /\ surface \in (0..MaxSurface) \X (0..MaxSurface)
    /\ tile_size_px \in 1..MaxTileSize
    /\ tiles = TileSet_init(surface, tile_size_px)
    /\ IdleRenderer /\ IdleTileMap /\ IdleGame
    /\ IdleLoop /\ IdleMain /\ IdleRpg
    /\ call = [op |-> "init"]
    /\ n_calls = 0

NextTileSet ==
    \E index \in (0 - IndexSlack)..(Len(tiles) + IndexSlack) : get(index)

SpecTileSet == InitTileSet /\ [][NextTileSet]_vars

\* C6: TileSet.get never raises; on an atlas with at least one tile an
\* index below 0 or at or above the count gives the same tile as get(0),
\* which is the first tile; on an empty atlas every index gives the
\* transparent tile_size x tile_size placeholder.
C6_GetAbsorbsBadIndex ==
    call.op = "TileSet.get" =>
        /\ call.result.raised = "none"
        /\ (Len(tiles) >= 1 /\ (call.index < 0 \/ call.index >= Len(tiles)))
              => /\ call.result.value = TileSet_get(0).value
                 /\ call.result.value = tiles[1]
        /\ Len(tiles) = 0
              => call.result.value =
                   [kind |-> "transparent", w |-> tile_size_px, h |-> tile_size_px]

\* get(-1) on an atlas of several tiles has returned the first tile.
C6_Witness ==
    /\ call.op = "TileSet.get"
    /\ Len(tiles) >= 2
    /\ call.index = -1
    /\ call.result.value = tiles[1]

\* C7: the atlas holds (w div t) * (h div t) tiles, and get(i), for i in
\* [0, count), is the t x t cell at column i mod cols, row i div cols of the
\* source image, cols = w div t.
C7_RowMajorSlicing ==
    LET t    == tile_size_px
        cols == surface[1] \div t
        rows == surface[2] \div t
    IN  /\ Len(tiles) = cols * rows
        /\ \A i \in 0..(Len(tiles) - 1) :
              TileSet_get(i) =
                 [raised |-> "none",
                  value  |-> [kind |-> "subsurface", x |-> (i % cols) * t,
                              y |-> (i \div cols) * t, w |-> t, h |-> t]]
        /\ (call.op = "TileSet.get" /\ 0 <= call.index /\ call.index < cols * rows)
              => /\ call.result.value.x = (call.index % cols) * t
                 /\ call.result.value.y = (call.index \div cols) * t

\* A 5 x 4 image cut into 2 x 2 tiles: the trailing column is dropped, and
\* get(3) has returned the cell at column 1, row 1.
C7_Witness ==
    /\ surface = <<5, 4>> /\ tile_size_px = 2
    /\ Len(tiles) = 4
    /\ call.op = "TileSet.get" /\ call.index = 3
    /\ call.result.value.x = 2 /\ call.result.value.y = 2

-----------------------------------------------------------------------------
(* TileMap (5.8.testhdr.py) *)

\* The tile indices written by set_tile: the value of the out-of-bounds
\* sentinel, the default tile, TILE_WALL.
TileIndices == {-1, 0, 1}

\* Coordinates handed to set_tile and get_tile_index along an axis of the
\* given extent: every cell and CoordSlack positions off either end.
Coords(extent) == (0 - CoordSlack)..(extent - 1 + CoordSlack)

\* [[0] * width for _ in range(height)]: height separate rows of zeros.
TileMap_init(w, h) == [r \in 1..h |-> [c \in 1..w |-> 0]]

\* list[i] = v for an i the list has.
ListSet(list, i, v) ==
    [list EXCEPT ![IF i >= 0 THEN i + 1 ELSE Len(list) + i + 1] = v]

\* data[y][x] = v as an outcome: the new list of rows, or IndexError.
NestedSet(data, y, x, v) ==
    IF ~PyIndexOk(data, y) THEN [raised |-> "IndexError", data |-> data]
    ELSE IF ~PyIndexOk(PyIndex(data, y), x)
         THEN [raised |-> "IndexError", data |-> data]
         ELSE [raised |-> "none",
               data |-> ListSet(data, y, ListSet(PyIndex(data, y), x, v))]

\* data[y][x] as an outcome.
NestedGet(data, y, x) ==
    IF ~PyIndexOk(data, y) THEN [raised |-> "IndexError", returned |-> "none"]
    ELSE IF ~PyIndexOk(PyIndex(data, y), x)
         THEN [raised |-> "IndexError", returned |-> "none"]
         ELSE [raised |-> "none", returned |-> PyIndex(PyIndex(data, y), x)]

\* The warning set_tile prints to sys.stderr.
OutOfBoundsWarning(x, y) == [warning |-> "out of map bounds", x |-> x, y |-> y]

\* self.map[y][x] = index with no bounds check (nes-snes-1.05.8.25.py).
TileMap_set_tile_unchecked(x, y, index) ==
    LET r == NestedSet(map_data, y, x, index)
    IN  [map_data |-> r.data, raised |-> r.raised, returned |-> "None",
         stderr |-> <<>>]

\* The row and the column exchanged: self.map_data[x][y] = index.
TileMap_set_tile_swapped(x, y, index) ==
    IF 0 <= y /\ y < height /\ 0 <= x /\ x < width
    THEN LET r == NestedSet(map_data, x, y, index)
         IN  [map_data |-> r.data, raised |-> r.raised, returned |-> "None",
              stderr |-> <<>>]
    ELSE [map_data |-> map_data, raised |-> "none", returned |-> "None",
          stderr |-> <<OutOfBoundsWarning(x, y)>>]

\* TileMap.set_tile: the grid it leaves, what it raises, what it returns to
\* the caller and what it prints to stderr.
TileMap_set_tile(x, y, index) ==
    IF 0 <= y /\ y < height /\ 0 <= x /\ x < width
    THEN LET r == NestedSet(map_data, y, x, index)
         IN  [map_data |-> r.data, raised |-> r.raised, returned |-> "None",
              stderr |-> <<>>]
    ELSE [map_data |-> map_data, raised |-> "none", returned |-> "None",
          stderr |-> <<OutOfBoundsWarning(x, y)>>]

\* Only the upper bounds checked: negative coordinates reach the list.
get_tile_index_no_lower_bound(x, y) ==
    IF y < height /\ x < width
    THEN NestedGet(map_data, y, x)
    ELSE [raised |-> "none", returned |-> -1]

\* TileMap.get_tile_index
get_tile_index(x, y) ==
    IF 0 <= y /\ y < height /\ 0 <= x /\ x < width
    THEN NestedGet(map_data, y, x)
    ELSE [raised |-> "none", returned |-> -1]

\* A call of tilemap.set_tile(x, y, index).
set_tile(x, y, index) ==
    LET r == TileMap_set_tile(x, y, index)
    IN  /\ n_calls < MaxWrites
        /\ n_calls' = n_calls + 1
        /\ map_data' = r.map_data
        /\ call' = [op |-> "set_tile", x |-> x, y |-> y, index |-> index,
                    before |-> map_data, raised |-> r.raised,
                    returned |-> r.returned, stderr |-> r.stderr]
        /\ UNCHANGED <<engine, rpgVars, rendererVars, tilesetVars, width, height, gameVars,
                       loopVars, mainVars>>

\* A call of tilemap.get_tile_index(x, y).
read_tile(x, y) ==
    LET r == get_tile_index(x, y)
    IN  /\ call' = [op |-> "get_tile_index", x |-> x, y |-> y,
                    raised |-> r.raised, returned |-> r.returned]
        /\ UNCHANGED <<engine, rpgVars, rendererVars, tilesetVars, tilemapVars, gameVars,
                       n_calls, loopVars, mainVars>>

InitTileMap ==
    /\ engine = "5.8.testhdr"
    /\ width \in 1..MaxGrid
    /\ height \in 1..MaxGrid
    /\ map_data = TileMap_init(width, height)
    /\ IdleRenderer /\ IdleTileSet /\ IdleGame
    /\ IdleLoop /\ IdleMain /\ IdleRpg
    /\ call = [op |-> "init"]
    /\ n_calls = 0

NextTileMap ==
    \E x \in Coords(width), y \in Coords(height) :
        \/ \E index \in TileIndices : set_tile(x, y, index)
        \/ read_tile(x, y)

SpecTileMap == InitTileMap /\ [][NextTileMap]_vars

InBounds(x, y) == 0 <= x /\ x < width /\ 0 <= y /\ y < height

\* The grid has height rows of width cells, as the constructor built it.
SameShape(data) ==
    /\ Len(data) = height
    /\ \A r \in 1..height : Len(data[r]) = width

\* C8: after an in-bounds set_tile(x, y, k), get_tile_index(x, y) returns k
\* and every other cell holds what it held before the write.
C8_SetThenGet ==
    (call.op = "set_tile" /\ InBounds(call.x, call.y)) =>
        /\ call.raised = "none"
        /\ get_tile_index(call.x, call.y) =
              [raised |-> "none", returned |-> call.index]
        /\ SameShape(map_data)
        /\ \A x \in 0..(width - 1), y \in 0..(height - 1) :
              <<x, y>> # <<call.x, call.y>>
                 => map_data[y + 1][x + 1] = call.before[y + 1][x + 1]

\* On a 2 x 2 grid holding -1 at (0, 0), set_tile(1, 0, 1) has been called.
C8_Witness ==
    /\ call.op = "set_tile" /\ call.x = 1 /\ call.y = 0 /\ call.index = 1
    /\ width = 2 /\ height = 2
    /\ call.before = <<(<<-1, 0>>), (<<0, 0>>)>>
    /\ map_data = <<(<<-1, 1>>), (<<0, 0>>)>>

\* C9 as claimed: an out-of-bounds set_tile reports an OutOfBounds condition
\* to its caller (by what it raises or returns) and leaves the grid
\* unchanged.
C9_ReportsOutOfBounds ==
    (call.op = "set_tile" /\ ~InBounds(call.x, call.y)) =>
        /\ (call.raised = "OutOfBounds" \/ call.returned = "OutOfBounds")
        /\ map_data = call.before

\* C9 as amended: an out-of-bounds set_tile prints a warning naming the
\* coordinates to stderr, returns None without raising, as an in-bounds
\* call does, and leaves the grid unchanged; an in-bounds call prints
\* nothing.
C9_WarnsAndLeavesGrid ==
    call.op = "set_tile" =>
        /\ call.raised = "none" /\ call.returned = "None"
        /\ ~InBounds(call.x, call.y) =>
              /\ call.stderr = <<[warning |-> "out of map bounds",
                                  x |-> call.x, y |-> call.y]>>
              /\ map_data = call.before
        /\ InBounds(call.x, call.y) => call.stderr = <<>>

\* set_tile(-1, 0, 1) has been called on a grid that holds a written cell.
C9_Witness ==
    /\ call.op = "set_tile" /\ call.x = -1 /\ call.y = 0 /\ call.index = 1
    /\ call.before # TileMap_init(width, height)
    /\ map_data = call.before

\* C10: get_tile_index never raises; it returns the cell's content for
\* 0 <= x < width and 0 <= y < height and -1 for every other (x, y).
C10_GetTileIndex ==
    /\ SameShape(map_data)
    /\ \A x \in Coords(width), y \in Coords(height) :
          get_tile_index(x, y) =
             [raised |-> "none",
              returned |-> IF InBounds(x, y) THEN map_data[y + 1][x + 1] ELSE -1]
    /\ call.op = "get_tile_index" =>
          /\ call.raised = "none"
          /\ call.returned = IF InBounds(call.x, call.y)
                             THEN map_data[call.y + 1][call.x + 1] ELSE -1

\* After two writes, get_tile_index(-1, 0) has returned -1 although the
\* last cell of row 0 holds 1, and row 0 also holds a written first cell.
C10_Witness ==
    /\ call.op = "get_tile_index" /\ call.x = -1 /\ call.y = 0
    /\ call.returned = -1
    /\ width = 2 /\ map_data[1] = <<1, 1>>
    /\ n_calls = 2

-----------------------------------------------------------------------------
(* update_game_state (5.8.testhdr.py): key displacement, tile collision,
   screen clamp *)

TILE_FLOOR == 0
TILE_WALL == 1

Keys == {"K_LEFT", "K_RIGHT", "K_UP", "K_DOWN"}

\* player_sprite.x after the four key tests.
moved_x(x, keys) ==
    LET x1 == IF "K_LEFT" \in keys THEN x - MOVE_SPEED ELSE x
    IN  IF "K_RIGHT" \in keys THEN x1 + MOVE_SPEED ELSE x1

\* player_sprite.y after the four key tests.
moved_y(y, keys) ==
    LET y1 == IF "K_UP" \in keys THEN y - MOVE_SPEED ELSE y
    IN  IF "K_DOWN" \in keys THEN y1 + MOVE_SPEED ELSE y1

\* Corners taken at right and bottom, the first pixels past the box.
corners_to_check_exclusive(x, y, w, h) ==
    << <<x, y>>, <<x + w, y>>, <<x, y + h>>, <<x + w, y + h>> >>

\* The four corners sampled of pygame.Rect(x, y, w, h): right - 1 and
\* bottom - 1 are the last pixels inside the box.
corners_to_check(x, y, w, h) ==
    << <<x, y>>, <<x + w - 1, y>>, <<x, y + h - 1>>, <<x + w - 1, y + h - 1>> >>

\* A corner test that lets every in-map tile through (walls too).
corner_collides_off_map_only(px, py) ==
    LET tile_x == FloorDiv(px, TILE_SIZE)
        tile_y == FloorDiv(py, TILE_SIZE)
    IN  ~(0 <= tile_x /\ tile_x < width /\ 0 <= tile_y /\ tile_y < height)

\* A corner test in which a corner outside the map hits nothing.
corner_collides_walls_only(px, py) ==
    LET tile_x == FloorDiv(px, TILE_SIZE)
        tile_y == FloorDiv(py, TILE_SIZE)
    IN  get_tile_index(tile_x, tile_y).returned = TILE_WALL

\* The body of the first corner loop: the corner is outside the map or on a
\* TILE_WALL tile.
corner_collides(px, py) ==
    LET tile_x == FloorDiv(px, TILE_SIZE)
        tile_y == FloorDiv(py, TILE_SIZE)
    IN  IF 0 <= tile_x /\ tile_x < width /\ 0 <= tile_y /\ tile_y < height
        THEN get_tile_index(tile_x, tile_y).returned = TILE_WALL
        ELSE TRUE

\* The body of the per-axis corner loops.
corner_collides_axis(px_c, py_c) ==
    LET tx == FloorDiv(px_c, TILE_SIZE)
        ty == FloorDiv(py_c, TILE_SIZE)
    IN  \/ ~(0 <= tx /\ tx < width /\ 0 <= ty /\ ty < height)
        \/ get_tile_index(tx, ty).returned = TILE_WALL

\* A first loop that samples the top-left corner alone.
collided_top_left_only(x, y) == corner_collides(x, y)

\* collided after the first loop, for the sprite's box at (x, y).
collided(x, y) ==
    \E i \in 1..4 :
        LET c == corners_to_check(x, y, player_sprite.width, player_sprite.height)[i]
        IN  corner_collides(c[1], c[2])

\* collided_x / collided_y after a per-axis loop, for the box at (x, y).
collided_axis(x, y) ==
    \E i \in 1..4 :
        LET c == corners_to_check(x, y, player_sprite.width, player_sprite.height)[i]
        IN  corner_collides_axis(c[1], c[2])

\* A collision step that keeps the proposed position whatever it hits.
collision_step_none(prev_x, prev_y, x, y) == <<x, y>>

\* A collision step that sets the sprite back whatever it proposed.
collision_step_reverts(prev_x, prev_y, x, y) == <<prev_x, prev_y>>

\* A collision step whose per-axis tests read the proposed coordinates: an
\* axis is set back only when the movement on that axis alone hits.
collision_step_slides(prev_x, prev_y, x, y) ==
    IF ~collided(x, y) THEN <<x, y>>
    ELSE <<IF collided_axis(x, prev_y) THEN prev_x ELSE x,
           IF collided_axis(prev_x, y) THEN prev_y ELSE y>>

\* The collision step: (x, y) is the sprite's position after the key
\* displacement; the result is its position before the clamp.  On a hit
\* both coordinates are set back first, and the per-axis tests then read
\* the coordinates already set back.
collision_step(prev_x, prev_y, x, y) ==
    IF ~collided(x, y) THEN <<x, y>>
    ELSE LET x1 == prev_x
             y1 == prev_y
             collided_x == collided_axis(x1, prev_y)
             x2 == IF collided_x THEN prev_x ELSE x1
             collided_y == collided_axis(prev_x, y1)
             y2 == IF collided_y THEN prev_y ELSE y1
         IN  <<x2, y2>>

\* A clamp to the screen size that forgets the sprite's own size.
clamp_to_screen_edge(v, logical, size) == Max(0, Min(v, logical))

\* max(0, min(v, logical - size))
clamp(v, logical, size) == Max(0, Min(v, logical - size))

\* A tick that also widens the sprite by a pixel.
update_game_state_grows(keys) ==
    LET prev_x == player_sprite.x
        prev_y == player_sprite.y
        x == moved_x(prev_x, keys)
        y == moved_y(prev_y, keys)
        r == collision_step(prev_x, prev_y, x, y)
    IN  /\ n_calls' = 1
        /\ player_sprite' =
              [player_sprite EXCEPT
                 !.x = clamp(r[1], logical_size[1], player_sprite.width),
                 !.y = clamp(r[2], logical_size[2], player_sprite.height),
                 !.width = @ + 1]
        /\ call' = [op |-> "update_game_state", prev |-> <<prev_x, prev_y>>,
                    proposed |-> <<x, y>>, resolved |-> r]
        /\ UNCHANGED <<engine, rpgVars, rendererVars, tilesetVars, tilemapVars, TILE_SIZE,
                       MOVE_SPEED, loopVars, mainVars>>

\* One call of update_game_state with the given keys held down; n_calls
\* tells that a tick has been made.
update_game_state(keys) ==
    LET prev_x == player_sprite.x
        prev_y == player_sprite.y
        x == moved_x(prev_x, keys)
        y == moved_y(prev_y, keys)
        r == collision_step(prev_x, prev_y, x, y)
    IN  /\ n_calls' = 1
        /\ player_sprite' =
              [player_sprite EXCEPT
                 !.x = clamp(r[1], logical_size[1], player_sprite.width),
                 !.y = clamp(r[2], logical_size[2], player_sprite.height)]
        /\ call' = [op |-> "update_game_state", prev |-> <<prev_x, prev_y>>,
                    proposed |-> <<x, y>>, resolved |-> r]
        /\ UNCHANGED <<engine, rpgVars, rendererVars, tilesetVars, tilemapVars, TILE_SIZE,
                       MOVE_SPEED, loopVars, mainVars>>

\* A map_layout of w x h tiles with TILE_WALL on the cells of walls.
map_layout(w, h, walls) ==
    [r \in 1..h |-> [c \in 1..w |->
        IF <<c - 1, r - 1>> \in walls THEN TILE_WALL ELSE TILE_FLOOR]]

\* The border cells of a w x h grid.
Border(w, h) ==
    {c \in (0..(w - 1)) \X (0..(h - 1)) :
        c[1] = 0 \/ c[1] = w - 1 \/ c[2] = 0 \/ c[2] = h - 1}

\* No pixel of the w x h box at (x, y) lies on a TILE_WALL cell of the map.
BoxFree(x, y, w, h) ==
    \A px \in x..(x + w - 1), py \in y..(y + h - 1) :
        LET tx == px \div TILE_SIZE
            ty == py \div TILE_SIZE
        IN  InBounds(tx, ty) => map_data[ty + 1][tx + 1] # TILE_WALL

\* The box lies inside the map.
BoxInGrid(x, y, w, h) ==
    /\ 0 <= x /\ x + w <= width * TILE_SIZE
    /\ 0 <= y /\ y + h <= height * TILE_SIZE

\* The box lies inside the logical screen.
BoxOnScreen(x, y, w, h) ==
    /\ 0 <= x /\ x + w <= logical_size[1]
    /\ 0 <= y /\ y + h <= logical_size[2]

\* The sprite is placed on floor, inside the screen and the map.
PlacedOnFloor(x, y) ==
    LET p == player_sprite
    IN  /\ BoxOnScreen(x, y, p.width, p.height)
        /\ BoxInGrid(x, y, p.width, p.height)
        /\ BoxFree(x, y, p.width, p.height)

\* Tile sizes of the small games.
SmallTiles == {2}

\* MOVE_SPEED of the small games: less than a tile, a whole tile.
SmallSpeeds == {1, 2}

\* Small games: a 3 x 3 map of small tiles with up to MaxWalls walls, a
\* sprite of up to MaxSprite pixels a side, a screen up to MaxShrink pixels
\* smaller than the map, and the sprite anywhere on the screen: the clamp
\* that ends every tick leaves it there.
InitSmall ==
    /\ TILE_SIZE \in SmallTiles
    /\ MOVE_SPEED \in SmallSpeeds
    /\ width = 3 /\ height = 3
    /\ \E walls \in {S \in SUBSET ((0..2) \X (0..2)) : Cardinality(S) <= MaxWalls} :
          map_data = map_layout(3, 3, walls)
    /\ \E shrink \in 0..MaxShrink :
          logical_size = <<3 * TILE_SIZE - shrink, 3 * TILE_SIZE - shrink>>
    /\ \E w, h \in 1..MaxSprite :
       \E x \in 0..(logical_size[1] - w), y \in 0..(logical_size[2] - h) :
          player_sprite = [x |-> x, y |-> y, width |-> w, height |-> h,
                           priority |-> 1]

\* The end-to-end scenario: a 16 x 14 map of 16-pixel tiles, open inside a
\* solid border, an 8 x 8 sprite at (24, 24) moving a whole tile a tick.
InitScenario ==
    /\ TILE_SIZE = 16
    /\ MOVE_SPEED = 16
    /\ width = 16 /\ height = 14
    /\ map_data = map_layout(16, 14, Border(16, 14))
    /\ logical_size = <<256, 224>>
    /\ player_sprite = [x |-> 24, y |-> 24, width |-> 8, height |-> 8,
                        priority |-> 1]

\* renderer.add_layer(tilemap); renderer.add_layer(player_sprite): the
\* layer list of the game.
DemoLayers ==
    <<[id |-> 1, has_draw |-> TRUE, has_priority |-> TRUE, priority |-> 0],
      [id |-> 2, has_draw |-> TRUE, has_priority |-> TRUE, priority |-> 1]>>

InitUpdate ==
    /\ engine = "5.8.testhdr"
    /\ layers = DemoLayers
    /\ IdleTileSet
    /\ InitSmall \/ InitScenario
    /\ IdleLoop /\ IdleMain /\ IdleRpg
    /\ call = [op |-> "init"]
    /\ n_calls = 0

\* A tick is a function of the state it starts in and of the keys, and
\* InitUpdate draws every state a tick can start in, so one tick is taken
\* from each.
NextUpdate == \E keys \in SUBSET Keys : n_calls = 0 /\ update_game_state(keys)

SpecUpdate == InitUpdate /\ [][NextUpdate]_vars

\* The last call was a tick of update_game_state.
Ticked == call.op = "update_game_state"

\* A corner of the sprite's box at (x, y) hits: its tile is outside the map
\* or is a TILE_WALL cell.
Hits(x, y) ==
    \E c \in {<<x, y>>, <<x + player_sprite.width - 1, y>>,
              <<x, y + player_sprite.height - 1>>,
              <<x + player_sprite.width - 1, y + player_sprite.height - 1>>} :
        LET tx == c[1] \div TILE_SIZE
            ty == c[2] \div TILE_SIZE
        IN  ~InBounds(tx, ty) \/ map_data[ty + 1][tx + 1] = TILE_WALL

\* A corner of the sprite's box at (x, y) lies in a TILE_WALL cell.
CornerInWall(x, y) ==
    \E c \in {<<x, y>>, <<x + player_sprite.width - 1, y>>,
              <<x, y + player_sprite.height - 1>>,
              <<x + player_sprite.width - 1, y + player_sprite.height - 1>>} :
        LET tx == c[1] \div TILE_SIZE
            ty == c[2] \div TILE_SIZE
        IN  InBounds(tx, ty) /\ map_data[ty + 1][tx + 1] = TILE_WALL

\* C2 as claimed: for every sprite size, from a previous position inside the
\* map that overlaps no wall, the position left by the collision step
\* overlaps no wall.
C2_NoOverlapAnySize ==
    LET p == player_sprite
    IN  (/\ Ticked
         /\ BoxInGrid(call.prev[1], call.prev[2], p.width, p.height)
         /\ BoxFree(call.prev[1], call.prev[2], p.width, p.height))
        => BoxFree(call.resolved[1], call.resolved[2], p.width, p.height)

\* C2 as amended: the same for sprites no wider and no taller than a tile,
\* whose four corners cover every cell the box touches.
C2_NoOverlapUpToTileSize ==
    LET p == player_sprite
    IN  (/\ Ticked
         /\ p.width <= TILE_SIZE /\ p.height <= TILE_SIZE
         /\ BoxInGrid(call.prev[1], call.prev[2], p.width, p.height)
         /\ BoxFree(call.prev[1], call.prev[2], p.width, p.height))
        => BoxFree(call.resolved[1], call.resolved[2], p.width, p.height)

\* A sprite no larger than a tile, standing clear of the walls, proposed a
\* position overlapping a wall, and the collision step left it clear.
C2_Witness ==
    LET p == player_sprite
    IN  /\ Ticked
        /\ p.width <= TILE_SIZE /\ p.height <= TILE_SIZE
        /\ BoxInGrid(call.prev[1], call.prev[2], p.width, p.height)
        /\ BoxFree(call.prev[1], call.prev[2], p.width, p.height)
        /\ ~BoxFree(call.proposed[1], call.proposed[2], p.width, p.height)
        /\ BoxFree(call.resolved[1], call.resolved[2], p.width, p.height)

\* C3 (sliding), in its most favourable reading: the sprite stood on floor,
\* the proposed position hits, the movement on one axis alone is blocked
\* and the slid position is on the screen; then the tick ends at the
\* previous coordinate on the blocked axis and the proposed coordinate on
\* the other.
C3_SlidesAlongWall ==
    LET px == call.prev[1]
        py == call.prev[2]
        qx == call.proposed[1]
        qy == call.proposed[2]
        p  == player_sprite
    IN  (Ticked /\ PlacedOnFloor(px, py) /\ Hits(qx, qy)) =>
          /\ (Hits(qx, py) /\ ~Hits(px, qy) /\ BoxOnScreen(px, qy, p.width, p.height))
                => (p.x = px /\ p.y = qy)
          /\ (Hits(px, qy) /\ ~Hits(qx, py) /\ BoxOnScreen(qx, py, p.width, p.height))
                => (p.x = qx /\ p.y = py)

\* C4 as claimed: from a previous position on the screen, a proposed x
\* beyond logical_width - width ends the tick at exactly
\* logical_width - width, and likewise for y.
C4_ClampedAtScreenEdge ==
    LET p == player_sprite
    IN  (Ticked /\ BoxOnScreen(call.prev[1], call.prev[2], p.width, p.height)) =>
          /\ call.proposed[1] > logical_size[1] - p.width
                => p.x = logical_size[1] - p.width
          /\ call.proposed[2] > logical_size[2] - p.height
                => p.y = logical_size[2] - p.height

\* C4 as amended: from a previous position on the screen, a proposed x
\* beyond logical_width - width ends the tick at exactly
\* logical_width - width when no corner of the box at the proposed position
\* hits, and at the previous x when one does; likewise for y.
C4_ClampedUnlessHit ==
    LET p == player_sprite
        hit == Hits(call.proposed[1], call.proposed[2])
    IN  (Ticked /\ BoxOnScreen(call.prev[1], call.prev[2], p.width, p.height)) =>
          /\ call.proposed[1] > logical_size[1] - p.width
                => p.x = IF hit THEN call.prev[1] ELSE logical_size[1] - p.width
          /\ call.proposed[2] > logical_size[2] - p.height
                => p.y = IF hit THEN call.prev[2] ELSE logical_size[2] - p.height

\* A move of two pixels to one pixel beyond the screen edge hit nothing and
\* was clamped to the edge.
C4_Witness ==
    /\ Ticked
    /\ call.prev[1] = logical_size[1] - player_sprite.width - 1
    /\ call.proposed[1] = logical_size[1] - player_sprite.width + 1
    /\ ~Hits(call.proposed[1], call.proposed[2])
    /\ player_sprite.x = logical_size[1] - player_sprite.width

\* C5: a purely horizontal proposed move whose box has a corner in a wall
\* cell ends the tick at the previous x and the proposed y; on the 16 x 14
\* bordered map an 8 x 8 sprite at (24, 24) proposing (8, 24) ends at
\* (24, 24).
C5_HorizontalMoveBlocked ==
    (/\ Ticked
     /\ call.proposed[2] = call.prev[2]
     /\ CornerInWall(call.proposed[1], call.proposed[2]))
    => /\ player_sprite.x = call.prev[1]
       /\ player_sprite.y = call.proposed[2]

\* The end-to-end scenario has run.
C5_Witness ==
    /\ Ticked
    /\ TILE_SIZE = 16 /\ width = 16 /\ height = 14
    /\ player_sprite.width = 8 /\ player_sprite.height = 8
    /\ call.prev = <<24, 24>> /\ call.proposed = <<8, 24>>
    /\ CornerInWall(8, 24)
    /\ player_sprite.x = 24 /\ player_sprite.y = 24

\* The w x h box at (x, y) abuts a wall: its right edge x + w is the left
\* pixel boundary of a TILE_WALL cell in a row of tiles the box reaches, or
\* its bottom edge y + h is the top boundary of a TILE_WALL cell in a
\* column of tiles the box reaches.
AbutsWall(x, y, w, h) ==
    \/ /\ (x + w) % TILE_SIZE = 0
       /\ \E py \in y..(y + h - 1) :
             LET tx == (x + w) \div TILE_SIZE
                 ty == py \div TILE_SIZE
             IN  InBounds(tx, ty) /\ map_data[ty + 1][tx + 1] = TILE_WALL
    \/ /\ (y + h) % TILE_SIZE = 0
       /\ \E px \in x..(x + w - 1) :
             LET tx == px \div TILE_SIZE
                 ty == (y + h) \div TILE_SIZE
             IN  InBounds(tx, ty) /\ map_data[ty + 1][tx + 1] = TILE_WALL

\* C15: a proposed box inside the grid whose right edge x + width is the
\* left boundary of a wall cell, or whose bottom edge y + height is the top
\* boundary of one, and which has no pixel in a wall cell, is not classified
\* as colliding: the collision step leaves the sprite at the proposed
\* position, abutting the wall.
C15_AbuttingBoxDoesNotCollide ==
    LET p == player_sprite
        qx == call.proposed[1]
        qy == call.proposed[2]
    IN  (/\ Ticked
         /\ BoxInGrid(qx, qy, p.width, p.height)
         /\ BoxFree(qx, qy, p.width, p.height)
         /\ AbutsWall(qx, qy, p.width, p.height))
        => /\ ~collided(qx, qy)
           /\ call.resolved = call.proposed
           /\ BoxOnScreen(qx, qy, p.width, p.height) => (p.x = qx /\ p.y = qy)

\* A sprite moved right by one pixel and came to rest with its right edge on
\* the left boundary of a wall cell.
C15_Witness ==
    LET p == player_sprite
    IN  /\ Ticked
        /\ call.proposed = <<call.prev[1] + 1, call.prev[2]>>
        /\ BoxInGrid(p.x, p.y, p.width, p.height)
        /\ BoxFree(p.x, p.y, p.width, p.height)
        /\ (p.x + p.width) % TILE_SIZE = 0
        /\ AbutsWall(p.x, p.y, p.width, p.height)
        /\ p.x = call.proposed[1] /\ p.y = call.proposed[2]

\* C16: if none of the four corners of the box at the proposed position hits
\* (each corner's tile, by floor division by the tile size, is inside the
\* grid and is not a wall), the collision step leaves the sprite at exactly
\* the proposed (x, y).
C16_NoHitKeepsProposed ==
    (Ticked /\ ~Hits(call.proposed[1], call.proposed[2]))
    => call.resolved = call.proposed

\* A diagonal move on a map with a wall hit nothing and was kept.
C16_Witness ==
    /\ Ticked
    /\ \E r \in 1..height, c \in 1..width : map_data[r][c] = TILE_WALL
    /\ call.proposed[1] # call.prev[1] /\ call.proposed[2] # call.prev[2]
    /\ ~Hits(call.proposed[1], call.proposed[2])
    /\ call.resolved = call.proposed

\* C17: a tick of update_game_state changes only the sprite's x and y: the
\* sprite's width, height and priority, every cell of the tile grid, the
\* grid's width and height and the renderer's layer list are after the tick
\* what they were before it.
C17_TickChangesOnlyPosition ==
    [][(call'.op = "update_game_state") =>
          /\ player_sprite'.width = player_sprite.width
          /\ player_sprite'.height = player_sprite.height
          /\ player_sprite'.priority = player_sprite.priority
          /\ DOMAIN player_sprite' = DOMAIN player_sprite
          /\ map_data' = map_data
          /\ width' = width /\ height' = height
          /\ layers' = layers]_vars

\* A tick has moved the sprite on both axes, on a map with a wall and under
\* the two layers of the game.
C17_Witness ==
    /\ Ticked
    /\ player_sprite.x # call.prev[1] /\ player_sprite.y # call.prev[2]
    /\ Len(layers) = 2
    /\ \E r \in 1..height, c \in 1..width : map_data[r][c] = TILE_WALL

ScreenIsGridExtent ==
    /\ logical_size[1] = width * TILE_SIZE
    /\ logical_size[2] = height * TILE_SIZE

\* C21: when the logical screen size is the grid extent (logical width =
\* grid width * tile size, logical height = grid height * tile size) and
\* the tick starts with the sprite's box inside the screen, the clamp that
\* ends the tick leaves the position produced by the collision step
\* unchanged, and the box is inside the screen again, so this holds of
\* every tick that follows.
C21_ClampChangesNothing ==
    LET p == player_sprite
    IN  (/\ Ticked
         /\ ScreenIsGridExtent
         /\ BoxOnScreen(call.prev[1], call.prev[2], p.width, p.height))
        => /\ p.x = call.resolved[1]
           /\ p.y = call.resolved[2]
           /\ BoxOnScreen(p.x, p.y, p.width, p.height)

\* On a screen as large as the grid a sprite at the right edge proposed a
\* position beyond it, which the clamp would have changed; the collision
\* step set it back, and the clamp changed nothing.
C21_Witness ==
    LET p == player_sprite
    IN  /\ Ticked
        /\ ScreenIsGridExtent
        /\ call.prev[1] = logical_size[1] - p.width
        /\ call.proposed[1] > logical_size[1] - p.width
        /\ clamp(call.proposed[1], logical_size[1], p.width) # call.proposed[1]
        /\ call.resolved = call.prev
        /\ p.x = call.resolved[1] /\ p.y = call.resolved[2]

-----------------------------------------------------------------------------
(* The demo game of 5.8.testhdr.py *)

DemoTileSize == 16
DemoMoveSpeed == 2

\* PLAYER_SIZE = TILE_SIZE - 8
PLAYER_SIZE == DemoTileSize - 8

\* player_start_x = player_start_y = TILE_SIZE * 1 + (TILE_SIZE - PLAYER_SIZE) // 2
player_start == DemoTileSize * 1 + FloorDiv(DemoTileSize - PLAYER_SIZE, 2)

\* map_layout of the demo: 14 rows of 16 tiles, 0 = floor, 1 = wall.
demo_map_layout ==
    << <<1, 1, 1, 1, 1, 1, 1, 1, 1, 1, 1, 1, 1, 1, 1, 1>>,
       <<1, 0, 0, 0, 0, 0, 0, 0, 0, 0, 0, 0, 0, 0, 0, 1>>,
       <<1, 0, 1, 1, 0, 1, 0, 1, 1, 0, 1, 0, 1, 1, 0, 1>>,
       <<1, 0, 0, 0, 0, 1, 0, 0, 0, 0, 1, 0, 0, 0, 0, 1>>,
       <<1, 0, 1, 0, 0, 1, 1, 1, 1, 0, 1, 0, 0, 1, 0, 1>>,
       <<1, 0, 0, 0, 0, 0, 0, 0, 0, 0, 0, 0, 0, 0, 0, 1>>,
       <<1, 0, 1, 1, 1, 0, 1, 1, 1, 0, 1, 1, 1, 0, 0, 1>>,
       <<1, 0, 0, 0, 0, 0, 1, 0, 0, 0, 0, 0, 0, 0, 0, 1>>,
       <<1, 0, 1, 0, 0, 1, 1, 0, 1, 1, 0, 1, 0, 1, 0, 1>>,
       <<1, 0, 1, 0, 0, 0, 0, 0, 1, 0, 0, 1, 0, 0, 0, 1>>,
       <<1, 0, 1, 1, 1, 1, 0, 1, 1, 0, 1, 1, 0, 1, 1, 1>>,
       <<1, 0, 0, 0, 0, 0, 0, 0, 0, 0, 0, 0, 0, 0, 0, 1>>,
       <<1, 0, 0, 0, 0, 0, 0, 0, 0, 0, 0, 0, 0, 0, 0, 1>>,
       <<1, 1, 1, 1, 1, 1, 1, 1, 1, 1, 1, 1, 1, 1, 1, 1>> >>

\* The state in which the demo enters renderer.run: the two-tile atlas, the
\* map, the sprite at its start, the screen as large as the map, the two
\* layers.
InitDemo ==
    /\ engine = "5.8.testhdr"
    /\ TILE_SIZE = DemoTileSize
    /\ MOVE_SPEED = DemoMoveSpeed
    /\ surface = <<DemoTileSize * 2, DemoTileSize>>
    /\ tile_size_px = DemoTileSize
    /\ tiles = TileSet_init(surface, tile_size_px)
    /\ height = Len(demo_map_layout)
    /\ width = Len(demo_map_layout[1])
    /\ map_data = demo_map_layout
    /\ player_sprite = [x |-> player_start, y |-> player_start,
                        width |-> PLAYER_SIZE, height |-> PLAYER_SIZE,
                        priority |-> 1]
    /\ logical_size = <<width * DemoTileSize, height * DemoTileSize>>
    /\ layers = DemoLayers
    /\ IdleLoop /\ IdleMain /\ IdleRpg
    /\ call = [op |-> "init"]
    /\ n_calls = 0

\* Tick after tick, with any keys held down.
NextDemo == \E keys \in SUBSET Keys : update_game_state(keys)

SpecDemo == InitDemo /\ [][NextDemo]_vars

\* C19: in the demo (16 x 14 grid with the given walls, tile size 16, 8 x 8
\* sprite starting at (20, 20), move speed 2, screen 256 x 224), after any
\* number of ticks with any of the four direction keys held in each, the
\* four sampled corners of the sprite lie inside the grid in cells that are
\* not walls, and 0 <= x <= 248 and 0 <= y <= 216.
C19_DemoSpriteStaysOnFloor ==
    LET p == player_sprite
    IN  /\ \A c \in {<<p.x, p.y>>, <<p.x + p.width - 1, p.y>>,
                     <<p.x, p.y + p.height - 1>>,
                     <<p.x + p.width - 1, p.y + p.height - 1>>} :
              /\ 0 <= c[1] \div 16 /\ c[1] \div 16 < 16
              /\ 0 <= c[2] \div 16 /\ c[2] \div 16 < 14
              /\ map_data[(c[2] \div 16) + 1][(c[1] \div 16) + 1] # 1
        /\ 0 <= p.x /\ p.x <= 248
        /\ 0 <= p.y /\ p.y <= 216

\* The sprite has crossed the map to its last floor cell, where it abuts
\* the border on the right and below, and its last move, down and to the
\* right, was refused.
C19_Witness ==
    /\ Ticked
    /\ width = 16 /\ height = 14 /\ TILE_SIZE = 16 /\ MOVE_SPEED = 2
    /\ player_sprite.width = 8 /\ player_sprite.height = 8
    /\ player_sprite.x = 232 /\ player_sprite.y = 200
    /\ call.prev = <<232, 200>> /\ call.proposed = <<234, 202>>

-----------------------------------------------------------------------------
(* SNESRenderer.run: the game loop, one action per statement *)

MaxTicks == 2        \* iterations of the loop of run
MaxEvents == 2       \* events handed out by one pygame.event.get()
MaxLayers == 3       \* layers registered before run is entered

\* The events pygame.event.get() hands out: the window-close signal, a
\* key-down and a key-up of Escape, a key-down of another key.
Events ==
    {[type |-> "QUIT", key |-> "none"],
     [type |-> "KEYDOWN", key |-> "K_ESCAPE"],
     [type |-> "KEYUP", key |-> "K_ESCAPE"],
     [type |-> "KEYDOWN", key |-> "K_a"]}

\* The lists of at most n events.
RECURSIVE EventLists(_)
EventLists(n) ==
    IF n = 0 THEN {<<>>}
    ELSE EventLists(n - 1)
         \cup {Append(l, e) : l \in {m \in EventLists(n - 1) : Len(m) = n - 1},
                              e \in Events}

\* The body of the for loop over the events: what evt sets running to.
\* nes-snes-1.05.8.25.py tests for QUIT alone.
ends_run(evt) ==
    \/ evt.type = "QUIT"
    \/ /\ engine = "5.8.testhdr"
       /\ evt.type = "KEYDOWN"
       /\ evt.key = "K_ESCAPE"

\* The termination signals among the events, by name.
signals_of(evts) ==
    {IF evts[i].type = "QUIT" THEN "QUIT" ELSE evts[i].key :
        i \in {j \in 1..Len(evts) : ends_run(evts[j])}}

\* Loop iterations entered so far.
TicksStarted == Cardinality({i \in 1..Len(log) : log[i].step = "poll"})

\* The log with one more step of the given tick.
Logged(tick, step, layer, signals) ==
    Append(log, [tick |-> tick, step |-> step, layer |-> layer,
                 signals |-> signals])

objectVars == <<engine, rpgVars, rendererVars, tilesetVars, tilemapVars, TILE_SIZE,
                MOVE_SPEED, n_calls, mainVars>>

\* renderer.run(cb): running = True.
run(cb) ==
    /\ pc = "setup"
    /\ window = "open"
    /\ pc' = "while"
    /\ running' = TRUE
    /\ update_cb' = cb
    /\ call' = [op |-> "run", update_cb |-> cb]
    /\ UNCHANGED <<objectVars, player_sprite, layer_i, log, window>>

\* while running:
while_running ==
    /\ pc = "while"
    /\ running => TicksStarted < MaxTicks
    /\ pc' = IF running THEN "poll" ELSE "pygame_quit"
    /\ UNCHANGED <<objectVars, player_sprite, call, running, update_cb, layer_i,
                   log, window>>

\* A poll step that leaves the loop at once when it sees a termination
\* signal (a break out of the tick).
poll_breaks(evts) ==
    /\ pc = "poll"
    /\ running' = IF \E i \in 1..Len(evts) : ends_run(evts[i])
                  THEN FALSE ELSE running
    /\ log' = Logged(TicksStarted + 1, "poll", 0, signals_of(evts))
    /\ pc' = IF running' THEN "update_cb" ELSE "pygame_quit"
    /\ UNCHANGED <<objectVars, player_sprite, call, update_cb, layer_i, window>>

\* for evt in pygame.event.get(): the events drained, running set to False
\* by a termination signal and never set back.
poll(evts) ==
    /\ pc = "poll"
    /\ running' = IF \E i \in 1..Len(evts) : ends_run(evts[i])
                  THEN FALSE ELSE running
    /\ log' = Logged(TicksStarted + 1, "poll", 0, signals_of(evts))
    /\ pc' = "update_cb"
    /\ UNCHANGED <<objectVars, player_sprite, call, update_cb, layer_i, window>>

\* A loop that never calls the callback it was given.
call_update_cb_never(keys) ==
    /\ pc = "update_cb"
    /\ pc' = "fill"
    /\ UNCHANGED <<objectVars, player_sprite, call, running, update_cb, layer_i,
                   log, window>>

\* if update_cb: update_cb().  The callback of a library user changes
\* nothing of the renderer; update, the callback of the entry point of
\* nes-snes-1.05.8.25.py, moves the sprite by the keys held down.
call_update_cb(keys) ==
    /\ pc = "update_cb"
    /\ IF update_cb = "None"
       THEN UNCHANGED <<log, player_sprite>>
       ELSE /\ log' = Logged(TicksStarted, "update", 0, {})
            /\ player_sprite' =
                  IF update_cb = "update"
                  THEN [player_sprite EXCEPT
                          !.x = moved_x(player_sprite.x, keys),
                          !.y = moved_y(player_sprite.y, keys)]
                  ELSE player_sprite
    /\ pc' = "fill"
    /\ UNCHANGED <<objectVars, call, running, update_cb, layer_i, window>>

\* self.window.fill(BLACK), and the for loop over self.layers entered.
window_fill ==
    /\ pc = "fill"
    /\ log' = Logged(TicksStarted, "clear", 0, {})
    /\ layer_i' = 0
    /\ pc' = "draw"
    /\ UNCHANGED <<objectVars, player_sprite, call, running, update_cb, window>>

\* A for loop that visits the layers from the last to the first.
layer_draw_reversed ==
    /\ pc = "draw"
    /\ layer_i < Len(layers)
    /\ log' = Logged(TicksStarted, "draw", layers[Len(layers) - layer_i].id, {})
    /\ layer_i' = layer_i + 1
    /\ UNCHANGED <<objectVars, player_sprite, call, running, update_cb, pc,
                   window>>

\* layer.draw(self.window, scale=self.scale) for the next layer of the list.
layer_draw ==
    /\ pc = "draw"
    /\ layer_i < Len(layers)
    /\ log' = Logged(TicksStarted, "draw", layers[layer_i + 1].id, {})
    /\ layer_i' = layer_i + 1
    /\ UNCHANGED <<objectVars, player_sprite, call, running, update_cb, pc,
                   window>>

\* The for loop is over: pygame.display.flip().
display_flip ==
    /\ pc = "draw"
    /\ layer_i >= Len(layers)
    /\ log' = Logged(TicksStarted, "flip", 0, {})
    /\ pc' = "clock_tick"
    /\ UNCHANGED <<objectVars, player_sprite, call, running, update_cb, layer_i,
                   window>>

\* self.clock.tick(fps), then back to the loop test.
clock_tick ==
    /\ pc = "clock_tick"
    /\ log' = Logged(TicksStarted, "pace", 0, {})
    /\ pc' = "while"
    /\ UNCHANGED <<objectVars, player_sprite, call, running, update_cb, layer_i,
                   window>>

\* pygame.quit() after the loop; run returns.
pygame_quit ==
    /\ pc = "pygame_quit"
    /\ window' = "closed"
    /\ log' = Logged(TicksStarted, "quit", 0, {})
    /\ pc' = "returned"
    /\ UNCHANGED <<objectVars, player_sprite, call, running, update_cb, layer_i>>

\* The statements of run after its first.
RunStep ==
    \/ while_running
    \/ \E evts \in EventLists(MaxEvents) : poll(evts)
    \/ \E keys \in SUBSET Keys : call_update_cb(keys)
    \/ window_fill
    \/ layer_draw
    \/ display_flip
    \/ clock_tick
    \/ pygame_quit

\* The layers registered before run: objects with a draw method and a
\* priority, as the Drawable contract asks.
Drawables == {o \in LayerObjects : o.has_draw /\ o.has_priority}

InitRun == InitRenderer

NextRun ==
    \/ \E obj \in Drawables : Len(layers) < MaxLayers /\ add_layer(obj)
    \/ \E cb \in {"None", "callback"} : run(cb)
    \/ RunStep

\* One thread runs the loop and every statement of it returns, so the loop
\* always takes its next step.
SpecRun == InitRun /\ [][NextRun]_vars /\ WF_vars(RunStep)

\* The entries of the log that belong to iteration n of the loop.
TickEntries(n) == SelectSeq(log, LAMBDA e : e.tick = n /\ e.step # "quit")

\* The steps of iteration n, in the order in which they were performed.
StepsOf(n) == [i \in 1..Len(TickEntries(n)) |-> TickEntries(n)[i].step]

\* The steps of one whole tick: poll, update (when run was given a
\* callback), clear, one draw per registered layer, flip, pace.
WholeTick ==
    <<"poll">> \o (IF update_cb = "None" THEN <<>> ELSE <<"update">>)
    \o <<"clear">> \o [i \in 1..Len(layers) |-> "draw"] \o <<"flip", "pace">>

IsPrefix(a, b) == Len(a) <= Len(b) /\ a = SubSeq(b, 1, Len(a))

\* The poll step of iteration n observed a termination signal.
Signalled(n) ==
    \E i \in 1..Len(log) :
        log[i].tick = n /\ log[i].step = "poll" /\ log[i].signals # {}

\* C11: within every tick of run the steps poll, update (the callback given
\* to run), clear, draw the layers, flip, pace happen once each and in that
\* order, and no step of tick n + 1 happens before the pace step of tick n:
\* the steps of a tick are always the first steps of a whole tick, every
\* tick before the last one started is whole, and the log never goes back
\* to an earlier tick.
C11_StepsOncePerTickInOrder ==
    /\ \A n \in 1..TicksStarted :
          /\ IsPrefix(StepsOf(n), WholeTick)
          /\ n < TicksStarted => StepsOf(n) = WholeTick
    /\ \A i \in 1..(Len(log) - 1) : log[i].tick <= log[i + 1].tick
    /\ \A i \in 1..Len(log) : log[i].tick \in 1..TicksStarted
    /\ pc = "poll" => (TicksStarted = 0 \/ StepsOf(TicksStarted) = WholeTick)

\* Run with a callback and two layers: the first tick is whole and the
\* second tick has been polled and updated.
C11_Witness ==
    /\ update_cb = "callback"
    /\ Len(layers) = 2
    /\ TicksStarted = 2
    /\ StepsOf(1) = <<"poll", "update", "clear", "draw", "draw", "flip", "pace">>
    /\ StepsOf(2) = <<"poll", "update">>

\* The loop has been left: pygame.quit is next, or run has returned.
LoopEnded == pc \in {"pygame_quit", "returned"}

\* What C12 says of every state: a tick whose poll step observed a
\* termination signal is the last tick started; the loop is left only after
\* a whole tick whose poll step observed one; and run has returned exactly
\* when pygame.quit was the last step, which closed the window.
C12_EndsOnlyAfterSignalledTick ==
    /\ \A n \in 1..TicksStarted : Signalled(n) => n = TicksStarted
    /\ LoopEnded =>
          /\ TicksStarted >= 1
          /\ Signalled(TicksStarted)
          /\ StepsOf(TicksStarted) = WholeTick
    /\ pc = "returned" <=>
          (log # <<>> /\ log[Len(log)].step = "quit" /\ window = "closed")
    /\ \A i \in 1..Len(log) :
          log[i].step = "quit" => (i = Len(log) /\ i > 1 /\ log[i - 1].step = "pace")

\* C12: when the poll step of a tick observes a termination signal (QUIT,
\* or an Escape key-down in 5.8.testhdr.py), that tick still runs its
\* update, clear, draw, flip and pace steps, no further tick is started,
\* and the loop ends with pygame.quit; the loop never ends after a tick
\* whose poll step observed no termination signal.
C12_SignalEndsLoopAfterTick ==
    /\ []C12_EndsOnlyAfterSignalledTick
    /\ (TicksStarted >= 1 /\ Signalled(TicksStarted))
          ~> (pc = "returned" /\ StepsOf(TicksStarted) = WholeTick)

\* In 5.8.testhdr.py a first tick saw no signal, the second saw an Escape
\* key-down, ran to its pace step, and run returned through pygame.quit.
C12_Witness ==
    /\ engine = "5.8.testhdr"
    /\ update_cb = "callback"
    /\ Len(layers) = 1
    /\ TicksStarted = 2
    /\ ~Signalled(1)
    /\ \E i \in 1..Len(log) : log[i].tick = 2 /\ log[i].signals = {"K_ESCAPE"}
    /\ StepsOf(2) = <<"poll", "update", "clear", "draw", "flip", "pace">>
    /\ pc = "returned" /\ window = "closed"

\* The ids of the layers drawn in iteration n, in the order of the draws.
DrawnIn(n) ==
    LET d == SelectSeq(log, LAMBDA e : e.tick = n /\ e.step = "draw")
    IN  [i \in 1..Len(d) |-> d[i].layer]

\* The registered layer with the given id (ids are given in registration
\* order).
LayerOf(id) == CHOOSE l \in {layers[k] : k \in 1..Len(layers)} : l.id = id

\* C13: in every tick draw is invoked once on each registered layer, in
\* ascending order of priority and, for equal priorities, in registration
\* order: a layer of higher priority is drawn after every layer of lower
\* priority, and a layer of priority 0 before every other.
C13_DrawsEachLayerInPriorityOrder ==
    \A n \in 1..TicksStarted :
        LET d == DrawnIn(n)
        IN  /\ \A i, j \in 1..Len(d) :
                  i < j =>
                     \/ SortKey(LayerOf(d[i])) < SortKey(LayerOf(d[j]))
                     \/ /\ SortKey(LayerOf(d[i])) = SortKey(LayerOf(d[j]))
                        /\ d[i] < d[j]
            /\ \A i \in 1..Len(d) :
                  \E k \in 1..Len(layers) : layers[k].id = d[i]
            /\ (\E i \in 1..Len(log) : log[i].tick = n /\ log[i].step = "flip")
                  => \A k \in 1..Len(layers) :
                        Cardinality({i \in 1..Len(d) : d[i] = layers[k].id}) = 1

\* Layers of priority 1, 0, 1 were registered in that order, and a tick has
\* drawn the second, then the first, then the third, and flipped.
C13_Witness ==
    /\ Len(layers) = 3
    /\ LayerOf(1).priority = 1 /\ LayerOf(2).priority = 0
    /\ LayerOf(3).priority = 1
    /\ DrawnIn(1) = <<2, 1, 3>>
    /\ \E i \in 1..Len(log) : log[i].tick = 1 /\ log[i].step = "flip"

-----------------------------------------------------------------------------
(* The command-line entry point of nes-snes-1.05.8.25.py *)

MaxArgv == 5         \* sys.argv holds 1..MaxArgv strings

\* An image file named on the command line: whether it is there, and the
\* size of the picture in it.
ImageFiles ==
    {[exists |-> FALSE, size |-> <<0, 0>>],
     [exists |-> TRUE, size |-> <<16, 8>>],
     [exists |-> TRUE, size |-> <<20, 17>>]}

\* The text of a tilemap file: a list of lines, each line the list of the
\* tokens line.strip().split() finds in it (a blank line has none).
TilemapTexts ==
    {<<>>,
     <<(<<>>)>>,
     <<(<<"0", "12">>), (<<"12", "0">>)>>,
     <<(<<"0">>), (<<>>), (<<"-3">>)>>,
     <<(<<"0", "12">>), (<<"0">>)>>,
     <<(<<"0", "x">>)>>,
     <<(<<"0">>), (<<"1.5">>)>>}

\* The tilemap file named on the command line.
TilemapFiles ==
    {[exists |-> FALSE, text |-> <<>>]}
    \cup {[exists |-> TRUE, text |-> t] : t \in TilemapTexts}

\* The tokens int() accepts, and their values.
IntTokens == {"0", "12", "-3"}
IntValue(tok) == CASE tok = "0" -> 0 [] tok = "12" -> 12 [] tok = "-3" -> 0 - 3

\* int(i) as an outcome: the value, or ValueError.
int(tok) ==
    IF tok \in IntTokens
    THEN [raised |-> "none", value |-> IntValue(tok)]
    ELSE [raised |-> "ValueError", value |-> 0]

\* [int(i) for i in stripped_line.split()] as an outcome.
RECURSIVE int_row(_)
int_row(tokens) ==
    IF tokens = <<>> THEN [raised |-> "none", row |-> <<>>]
    ELSE LET v == int(Head(tokens))
             rest == int_row(Tail(tokens))
         IN  IF v.raised # "none" THEN [raised |-> v.raised, row |-> <<>>]
             ELSE IF rest.raised # "none" THEN rest
             ELSE [raised |-> "none", row |-> <<v.value>> \o rest.row]

\* A reading loop that drops the tokens int() refuses.
RECURSIVE read_rows_lenient(_)
read_rows_lenient(lines) ==
    IF lines = <<>> THEN [raised |-> "none", rows |-> <<>>]
    ELSE LET kept == SelectSeq(Head(lines), LAMBDA tok : tok \in IntTokens)
             rest == read_rows_lenient(Tail(lines))
         IN  IF kept = <<>> THEN rest
             ELSE [raised |-> "none",
                   rows |-> <<int_row(kept).row>> \o rest.rows]

\* for line in f: the rows appended to tm_rows, or the ValueError that ends
\* the loop; blank lines are skipped.
RECURSIVE read_rows(_)
read_rows(lines) ==
    IF lines = <<>> THEN [raised |-> "none", rows |-> <<>>]
    ELSE IF Head(lines) = <<>> THEN read_rows(Tail(lines))
    ELSE LET r == int_row(Head(lines))
             rest == read_rows(Tail(lines))
         IN  IF r.raised # "none" THEN [raised |-> r.raised, rows |-> <<>>]
             ELSE IF rest.raised # "none" THEN rest
             ELSE [raised |-> "none", rows |-> <<r.row>> \o rest.rows]

\* The process ends with the given status: sys.exit(status), or an
\* exception nobody catches (status 1).
exits(status, why) ==
    /\ pc' = "exited"
    /\ exit_status' = status
    /\ call' = [op |-> "exit", why |-> why]

\* if len(sys.argv) != 4: usage message, sys.exit(1).
main_check_args ==
    /\ pc = "main"
    /\ IF Len(sys_argv) # 4
       THEN exits("1", "usage")
       ELSE pc' = "load_tilesheet" /\ UNCHANGED <<exit_status, call>>
    /\ UNCHANGED <<engine, rpgVars, rendererVars, tilesetVars, tilemapVars, gameVars,
                   n_calls, running, update_cb, layer_i, log, window, sys_argv,
                   files, tm_rows>>

\* pygame.image.load(tilesheet).convert_alpha() and TileSet(surface): 8 x 8
\* tiles.  pygame may refuse a file that is there (it cannot decode it, or
\* it has no video mode to convert for); nobody catches what it raises.
main_load_tilesheet(loaded) ==
    /\ pc = "load_tilesheet"
    /\ loaded => files.tilesheet.exists
    /\ IF ~loaded
       THEN exits("1", "uncaught exception") /\ UNCHANGED tilesetVars
       ELSE /\ surface' = files.tilesheet.size
            /\ tile_size_px' = 8
            /\ tiles' = TileSet_init(files.tilesheet.size, 8)
            /\ pc' = "read_tilemap"
            /\ UNCHANGED <<exit_status, call>>
    /\ UNCHANGED <<engine, rpgVars, rendererVars, tilemapVars, gameVars, n_calls, running,
                   update_cb, layer_i, log, window, sys_argv, files, tm_rows>>

\* The try block: tm_rows filled from the file.  FileNotFoundError and
\* ValueError are caught, reported, and followed by sys.exit(1).
main_read_tilemap ==
    LET r == read_rows(files.tilemap.text)
    IN  /\ pc = "read_tilemap"
        /\ IF ~files.tilemap.exists
           THEN exits("1", "tilemap not found") /\ UNCHANGED tm_rows
           ELSE IF r.raised = "ValueError"
           THEN exits("1", "non-integer values") /\ UNCHANGED tm_rows
           ELSE /\ tm_rows' = r.rows
                /\ pc' = "check_tilemap"
                /\ UNCHANGED <<exit_status, call>>
        /\ UNCHANGED <<engine, rpgVars, rendererVars, tilesetVars, tilemapVars, gameVars,
                       n_calls, running, update_cb, layer_i, log, window,
                       sys_argv, files>>

\* if not tm_rows or not tm_rows[0]: sys.exit(1); else the TileMap is
\* built and given tm_rows as its map.
main_check_tilemap ==
    /\ pc = "check_tilemap"
    /\ IF tm_rows = <<>> \/ tm_rows[1] = <<>>
       THEN exits("1", "empty tilemap") /\ UNCHANGED tilemapVars
       ELSE /\ width' = Len(tm_rows[1])
            /\ height' = Len(tm_rows)
            /\ map_data' = tm_rows
            /\ pc' = "load_mario"
            /\ UNCHANGED <<exit_status, call>>
    /\ UNCHANGED <<engine, rpgVars, rendererVars, tilesetVars, gameVars, n_calls, running,
                   update_cb, layer_i, log, window, sys_argv, files, tm_rows>>

\* pygame.image.load(mario).convert_alpha() and Sprite(surface, 120, 120).
main_load_mario(loaded) ==
    /\ pc = "load_mario"
    /\ loaded => files.mario.exists
    /\ IF ~loaded
       THEN exits("1", "uncaught exception") /\ UNCHANGED player_sprite
       ELSE /\ player_sprite' = [x |-> 120, y |-> 120,
                                 width |-> files.mario.size[1],
                                 height |-> files.mario.size[2], priority |-> 1]
            /\ pc' = "make_renderer"
            /\ UNCHANGED <<exit_status, call>>
    /\ UNCHANGED <<engine, rpgVars, rendererVars, tilesetVars, tilemapVars, TILE_SIZE,
                   MOVE_SPEED, n_calls, running, update_cb, layer_i, log, window,
                   sys_argv, files, tm_rows>>

\* renderer = SNESRenderer(window_scale=2): the window is created.
main_make_renderer ==
    /\ pc = "make_renderer"
    /\ window' = "open"
    /\ layers' = <<>>
    /\ logical_size' = <<256, 224>>
    /\ pc' = "setup"
    /\ UNCHANGED <<engine, rpgVars, tilesetVars, tilemapVars, gameVars, call, n_calls,
                   running, update_cb, layer_i, log, mainVars>>

\* renderer.add_layer(tilemap)
main_add_tilemap ==
    /\ sys_argv # <<>>
    /\ n_calls = 0
    /\ add_layer([has_draw |-> TRUE, has_priority |-> TRUE, priority |-> 0])

\* renderer.add_layer(mario_sprite)
main_add_sprite ==
    /\ sys_argv # <<>>
    /\ n_calls = 1
    /\ add_layer([has_draw |-> TRUE, has_priority |-> TRUE,
                  priority |-> player_sprite.priority])

\* renderer.run(update)
main_run ==
    /\ sys_argv # <<>>
    /\ n_calls = 2
    /\ run("update")

\* sys.exit(0) after run has returned.
main_exit_0 ==
    /\ pc = "returned"
    /\ sys_argv # <<>>
    /\ exits("0", "sys.exit(0)")
    /\ UNCHANGED <<engine, rpgVars, rendererVars, tilesetVars, tilemapVars, gameVars,
                   n_calls, running, update_cb, layer_i, log, window, sys_argv,
                   files, tm_rows>>

\* The process is started: nothing is loaded and there is no window yet.
InitMain ==
    /\ engine = "nes-snes-1.05.8.25"
    /\ sys_argv \in UNION {[1..n -> {"arg"}] : n \in 1..MaxArgv}
    /\ files \in [tilesheet : ImageFiles, tilemap : TilemapFiles,
                  mario : ImageFiles]
    /\ tm_rows = <<>>
    /\ exit_status = "none"
    /\ pc = "main"
    /\ window = "none"
    /\ running = FALSE /\ update_cb = "None" /\ layer_i = 0 /\ log = <<>>
    /\ IdleRenderer /\ IdleTileSet /\ IdleTileMap /\ IdleGame /\ IdleRpg
    /\ call = [op |-> "init"]
    /\ n_calls = 0

NextMain ==
    \/ main_check_args
    \/ \E loaded \in BOOLEAN : main_load_tilesheet(loaded)
    \/ main_read_tilemap
    \/ main_check_tilemap
    \/ \E loaded \in BOOLEAN : main_load_mario(loaded)
    \/ main_make_renderer
    \/ main_add_tilemap
    \/ main_add_sprite
    \/ main_run
    \/ RunStep
    \/ main_exit_0

SpecMain == InitMain /\ [][NextMain]_vars

\* The tokens of the tilemap file.
TokensOf(text) == UNION {{text[i][j] : j \in 1..Len(text[i])} : i \in 1..Len(text)}

\* The fatal load errors of C14, read off the command line and the files.
WrongArgumentCount == Len(sys_argv) # 4
MissingTilemap == ~files.tilemap.exists
NonIntegerToken ==
    files.tilemap.exists /\ TokensOf(files.tilemap.text) \ {"0", "12", "-3"} # {}
EmptyTilemap ==
    files.tilemap.exists /\ TokensOf(files.tilemap.text) = {}

\* C14: in the entry point of nes-snes-1.05.8.25.py a wrong argument count,
\* a missing tilemap file, a non-integer token in the tilemap and an empty
\* tilemap each end the process with exit status 1, at the statement that
\* tests for them, before the renderer window is created and before any
\* tick of the run loop; a process that ran the loop exits with status 0,
\* after a tick that observed the window-close signal, and status 0 is
\* given to no other process.
C14_FatalLoadErrorsExit1 ==
    /\ WrongArgumentCount => pc \in {"main", "exited"}
    /\ (MissingTilemap \/ NonIntegerToken)
          => pc \in {"main", "load_tilesheet", "read_tilemap", "exited"}
    /\ EmptyTilemap
          => pc \in {"main", "load_tilesheet", "read_tilemap", "check_tilemap",
                     "exited"}
    /\ (WrongArgumentCount \/ MissingTilemap \/ NonIntegerToken \/ EmptyTilemap)
          => /\ window = "none"
             /\ log = <<>>
             /\ pc = "exited" => exit_status = "1"
    /\ pc = "exited" <=> exit_status # "none"
    /\ (pc = "exited" /\ window = "none") => exit_status = "1"
    /\ exit_status = "0" <=> (pc = "exited" /\ log # <<>>)
    /\ exit_status = "0" =>
          /\ window = "closed"
          /\ log[Len(log)].step = "quit"
          /\ \E i \in 1..Len(log) :
                /\ log[i].tick = TicksStarted
                /\ log[i].step = "poll"
                /\ log[i].signals = {"QUIT"}

\* Three arguments, a tilesheet that loads and a tilemap file whose second
\* line holds the token 1.5: the process has exited with status 1 and no
\* window.
C14_Witness ==
    /\ Len(sys_argv) = 4
    /\ files.tilemap.exists
    /\ files.tilemap.text = <<(<<"0">>), (<<"1.5">>)>>
    /\ tiles # <<>>
    /\ pc = "exited" /\ exit_status = "1"
    /\ call = [op |-> "exit", why |-> "non-integer values"]
    /\ window = "none" /\ log = <<>>

-----------------------------------------------------------------------------
(* The game loop of rpg.5.8.25.py *)

MaxEnemies == 3      \* enemies in the list when a frame starts, mid-game
MaxHp == 2           \* hp an enemy has left when a frame starts, mid-game
MaxFrames == 2       \* frames of the loop

RpgEnemies == 5
RpgEnemyHp == 50

\* mario as constructed.
mario_start == [x |-> 320, y |-> 240, hp |-> 100, size |-> 20]

\* Places random.randint(0, 620), random.randint(0, 460) puts an enemy: on
\* mario's start, 35 pixels to its right (in reach of mario there, and out
\* of reach once mario steps left), far away.
EnemyPlaces == {<<320, 240>>, <<355, 240>>, <<600, 400>>}

\* math.hypot(dx, dy) < mario['size'] + enemy['size'], on integers.
in_reach(m, enemy) ==
    (m.x - enemy.x) * (m.x - enemy.x) + (m.y - enemy.y) * (m.y - enemy.y)
        < (m.size + enemy.size) * (m.size + enemy.size)

\* mario after the four key tests: 5 pixels a key.
mario_moved(m, keys) ==
    LET x1 == IF "K_LEFT" \in keys THEN m.x - 5 ELSE m.x
        x2 == IF "K_RIGHT" \in keys THEN x1 + 5 ELSE x1
        y1 == IF "K_UP" \in keys THEN m.y - 5 ELSE m.y
        y2 == IF "K_DOWN" \in keys THEN y1 + 5 ELSE y1
    IN  [m EXCEPT !.x = x2, !.y = y2]

\* list.remove(e): the list without its first element equal to e (dicts
\* are compared by their items).  Every element of list is a pair of the
\* place the dict had in the list when the frame started and the dict.
RECURSIVE list_remove(_, _)
list_remove(list, e) ==
    IF list = <<>> THEN <<>>
    ELSE IF Head(list).dict = e THEN Tail(list)
    ELSE <<Head(list)>> \o list_remove(Tail(list), e)

\* for enemy in enemies, from the iterator's index i on: the list iterator
\* hands out list[i] and moves to i + 1, whatever the body did to the list.
\* visited collects the places (at the start of the frame) of the enemies
\* handed out, each of which is drawn and tested for damage.
RECURSIVE enemy_loop(_, _, _, _)
enemy_loop(i, list, visited, m) ==
    IF i >= Len(list) THEN [enemies |-> list, visited |-> visited]
    ELSE LET enemy == list[i + 1]
             hit == in_reach(m, enemy.dict)
             hurt == IF hit THEN [enemy.dict EXCEPT !.hp = @ - 1] ELSE enemy.dict
             list1 == [list EXCEPT ![i + 1].dict = hurt]
             list2 == IF hit /\ hurt.hp <= 0 THEN list_remove(list1, hurt)
                      ELSE list1
         IN  enemy_loop(i + 1, list2, Append(visited, enemy.place), m)

\* One iteration of the while loop: events, keys, fill, mario drawn, the
\* loop over the enemies, flip, tick.
rpg_frame(evts, keys) ==
    LET m == mario_moved(mario, keys)
        tagged == [k \in 1..Len(enemies) |-> [place |-> k, dict |-> enemies[k]]]
        r == enemy_loop(0, tagged, <<>>, m)
    IN  /\ pc = "rpg_loop"
        /\ running
        /\ n_calls < MaxFrames
        /\ n_calls' = n_calls + 1
        /\ running' = IF \E i \in 1..Len(evts) : evts[i].type = "QUIT"
                      THEN FALSE ELSE running
        /\ mario' = m
        /\ enemies' = [k \in 1..Len(r.enemies) |-> r.enemies[k].dict]
        /\ call' = [op |-> "rpg_frame", before |-> enemies,
                    visited |-> r.visited]
        /\ UNCHANGED <<engine, rendererVars, tilesetVars, tilemapVars, gameVars,
                       pc, update_cb, layer_i, log, window, mainVars>>

\* After the loop: pygame.quit() and sys.exit().
rpg_exit ==
    /\ pc = "rpg_loop"
    /\ ~running
    /\ window' = "closed"
    /\ pc' = "exited"
    /\ exit_status' = "0"
    /\ UNCHANGED <<engine, rendererVars, tilesetVars, tilemapVars, gameVars,
                   call, n_calls, running, update_cb, layer_i, log, sys_argv,
                   files, tm_rows, rpgVars>>

\* The lists of at most n enemies with the given hp values.
RECURSIVE EnemyLists(_, _)
EnemyLists(n, hps) ==
    IF n = 0 THEN {<<>>}
    ELSE EnemyLists(n - 1, hps)
         \cup {Append(l, [x |-> at[1], y |-> at[2], size |-> 20, hp |-> hp]) :
                 l \in {k \in EnemyLists(n - 1, hps) : Len(k) = n - 1},
                 at \in EnemyPlaces, hp \in hps}

\* The game as constructed (five enemies of 50 hp), or as a frame finds it
\* later in the game: fewer enemies with less hp left.
InitRpg ==
    /\ engine = "rpg.5.8.25"
    /\ mario = mario_start
    /\ \/ /\ enemies \in EnemyLists(RpgEnemies, {RpgEnemyHp})
          /\ Len(enemies) = RpgEnemies
       \/ enemies \in EnemyLists(MaxEnemies, 1..MaxHp)
    /\ pc = "rpg_loop"
    /\ running = TRUE
    /\ window = "open"
    /\ update_cb = "None" /\ layer_i = 0 /\ log = <<>>
    /\ IdleRenderer /\ IdleTileSet /\ IdleTileMap /\ IdleGame /\ IdleMain
    /\ call = [op |-> "init"]
    /\ n_calls = 0

NextRpg ==
    \/ \E evts \in EventLists(1), keys \in SUBSET Keys : rpg_frame(evts, keys)
    \/ rpg_exit

SpecRpg == InitRpg /\ [][NextRpg]_vars

\* C22 as claimed: every enemy that is in the list when a frame starts is
\* drawn and tested for damage exactly once in that frame, also when
\* another enemy's hp reaches 0 and it is removed while the list is
\* iterated.
C22_EveryEnemyVisitedOnce ==
    call.op = "rpg_frame" =>
        \A k \in 1..Len(call.before) :
            Cardinality({i \in 1..Len(call.visited) : call.visited[i] = k}) = 1
====
